---- MODULE Spec2Model ----
(***************************************************************************)
(* A model of the media reframing core of moonlight-web/streamer:          *)
(*                                                                         *)
(*   video/annexb.rs  AnnexBSplitter: a cursor over one buffer that yields *)
(*                    the start-code-delimited NAL units of the buffer.    *)
(*   audio.rs         OpusTrackSampleAudioDecoder: a synchronous decode    *)
(*                    callback that hands frames over a bounded queue to a *)
(*                    background task, which muxes them and forwards the   *)
(*                    chunks to the outbound transport.                    *)
(*                                                                         *)
(* Offsets are 0-based as in the source; TLA+ sequences are 1-based, so    *)
(* the byte data[i] of the source is d[i + 1] here.                        *)
(***************************************************************************)
EXTENDS Integers, Sequences, FiniteSets, TLC

\* ---------------------------------------------------------------- bounds

\* The longest buffer a splitter is constructed over.
MaxLen == 10

\* The decoder is set up at most MaxSetups times and handed at most
\* MaxFrames frames; one write_packet emits at most MaxChunks chunks.
MaxSetups == 2

MaxFrames == 3

MaxChunks == 2

\* In the runs that fill the inbound queue, the frames submitted beyond
\* its capacity.
MaxOver == 2

\* The bytes of a buffer.  The code compares bytes with 0 and 1 only, so 66
\* (0x42, the NAL header byte of the source's tests) stands for every
\* other value.
Byte == {0, 1, 66}

Buffers == UNION {[1..n -> Byte] : n \in 0..MaxLen}

\* ------------------------------------------------------ video/annexb.rs

\* video/annexb.rs
\*
\* data, offset: the fields of AnnexBSplitter.  History: op is the last
\* operation ("new", "reset", "next"), result what the last next() returned
\* ("Some", "None", or "NotCalled" since new/reset), returned the units
\* returned since new/reset, origin how the current buffer was installed.
VARIABLES data, offset, op, result, returned, origin

splitterVars == <<data, offset, op, result, returned, origin>>

\* audio.rs
\*
\* sender, config: the fields of OpusTrackSampleAudioDecoder (0 is None;
\* a sender is named by the number of the setup() call that made its
\* channel).  callerPc, pending: the decode callback's thread, "idle" or
\* inside blocking_send with the frame pending.  Per setup() call t:
\* queue[t] the frames buffered in the inbound channel, pc[t] the place of
\* the spawned task, granule_pos[t], samples_per_frame[t], chunk_rx[t] the
\* chunks buffered in the task's unbounded channel, chunk[t] the chunk
\* being sent.
\* History: calls counts the decode_and_play_sample calls (a frame is
\* named by the number of its call), enqueued[t] the frames sent into
\* channel t, discarded the frames dropped, each with the sender of the
\* moment (0: none) and whether that sender's receiver was closed, written[t] the packets
\* task t wrote, handed[t] the last chunk task t handed to the transport,
\* lastSend the result of the last completed transport send, marker the
\* last call of start() or stop() and the number of frames submitted
\* before it (recorded in the runs whose limits say so).  limits
\* bounds the calls of one run.
VARIABLES sender, config, callerPc, pending, queue, pc, granule_pos,
          samples_per_frame, chunk_rx, chunk, calls, enqueued, discarded,
          written, handed, lastSend, limits, marker

audioVars == <<sender, config, callerPc, pending, queue, pc, granule_pos,
               samples_per_frame, chunk_rx, chunk, calls, enqueued, discarded,
               written, handed, lastSend, limits, marker>>

vars == <<splitterVars, audioVars>>

\* AnnexBStartCode::code
code(sc) == IF sc = "B3" THEN <<0, 0, 1>> ELSE <<0, 0, 0, 1>>

\* AnnexBStartCode::len
len(sc) == Len(code(sc))

\* slice::starts_with
starts_with(s, p) == Len(s) >= Len(p) /\ SubSeq(s, 1, Len(p)) = p

\* usize::saturating_sub
saturating_sub(a, b) == IF a >= b THEN a - b ELSE 0

\* Option::None / Option::Some of find_start_code's triple.
NoStartCode == [found |-> FALSE]

FoundStartCode(off, sc, n) == [found |-> TRUE, off |-> off, sc |-> sc, len |-> n]

\* A loop bound one too small: the scan stops before the last three bytes.
scan_limit_short(n) == saturating_sub(n, 3)

\* The bound of find_start_code's loop: while i < data.len().saturating_sub(2).
scan_limit(n) == saturating_sub(n, 2)

\* 00 00 00 01 at i reported as the 3-byte code that begins one byte later.
zero_run_code_late(i) == FoundStartCode(i + 1, "B3", 3)

\* 00 00 00 01 at i reported with the 3-byte tag.
zero_run_code_b3(i) == FoundStartCode(i, "B3", 3)

\* The start code reported for 00 00 00 at i followed by 01.
zero_run_code(i) == FoundStartCode(i, "B4", 4)

\* find_start_code's loop, from index i on.
RECURSIVE find_start_code_from(_, _)
find_start_code_from(d, i) ==
    IF ~(i < scan_limit(Len(d))) THEN NoStartCode
    ELSE IF d[i + 1] = 0 /\ d[i + 2] = 0
         THEN IF d[i + 3] = 1
              THEN IF i > 0 /\ d[i] = 0
                   THEN FoundStartCode(i - 1, "B4", 4)
                   ELSE FoundStartCode(i, "B3", 3)
              ELSE IF d[i + 3] = 0
                   THEN IF i + 3 < Len(d) /\ d[i + 4] = 1
                        THEN zero_run_code(i)
                        ELSE find_start_code_from(d, i + 1)
                   ELSE find_start_code_from(d, i + 1)
         ELSE find_start_code_from(d, i + 1)

\* A scan that never looks at the first byte of its slice.
find_start_code_skip_first(d) == find_start_code_from(d, 1)

\* find_start_code
find_start_code(d) == find_start_code_from(d, 0)

\* The start code next() settles on for the cursor at off: the one at the
\* cursor, else the first one the scan finds, else none.
locate(d, off) ==
    LET current_slice == SubSeq(d, off + 1, Len(d))
    IN  IF starts_with(current_slice, <<0, 0, 0, 1>>)
        THEN FoundStartCode(off, "B4", 4)
        ELSE IF starts_with(current_slice, <<0, 0, 1>>)
        THEN FoundStartCode(off, "B3", 3)
        ELSE LET f == find_start_code(current_slice)
             IN  IF f.found
                 THEN FoundStartCode(off + f.off, f.sc, f.len)
                 ELSE NoStartCode

\* An end one byte past the start of the next start code.
payload_end_of_past(d, payload_start) ==
    LET next_sc == IF payload_start < Len(d)
                   THEN find_start_code(SubSeq(d, payload_start + 1, Len(d)))
                   ELSE NoStartCode
    IN  IF next_sc.found THEN payload_start + next_sc.off + 1 ELSE Len(d)

\* The end of the unit whose payload starts at payload_start.
payload_end_of(d, payload_start) ==
    LET next_sc == IF payload_start < Len(d)
                   THEN find_start_code(SubSeq(d, payload_start + 1, Len(d)))
                   ELSE NoStartCode
    IN  IF next_sc.found THEN payload_start + next_sc.off ELSE Len(d)

\* The AnnexBData next() builds for the start code at sc_off.  "at" is the
\* place of the view "full" in the owning buffer.
AnnexBData(d, sc_off, sc, sc_len, payload_end) ==
    [payload_range    |-> <<sc_len, payload_end - sc_off>>,
     start_code       |-> sc,
     start_code_range |-> <<0, sc_len>>,
     full             |-> SubSeq(d, sc_off + 1, payload_end),
     at               |-> sc_off]

\* next() that leaves the cursor on the start code of the unit it returns.
next_stays(d, off) ==
    IF off >= Len(d)
    THEN [some |-> FALSE, offset |-> off]
    ELSE LET sc == locate(d, off)
         IN  IF ~sc.found
             THEN [some |-> FALSE, offset |-> Len(d)]
             ELSE LET payload_start == sc.off + sc.len
                      payload_end   == payload_end_of(d, payload_start)
                  IN  [some   |-> TRUE,
                       offset |-> sc.off,
                       unit   |-> AnnexBData(d, sc.off, sc.sc, sc.len, payload_end)]

\* next() without the cursor's move to the end when no start code is left.
next_keeps_offset(d, off) ==
    IF off >= Len(d)
    THEN [some |-> FALSE, offset |-> off]
    ELSE LET sc == locate(d, off)
         IN  IF ~sc.found
             THEN [some |-> FALSE, offset |-> off]
             ELSE LET payload_start == sc.off + sc.len
                      payload_end   == payload_end_of(d, payload_start)
                  IN  [some   |-> TRUE,
                       offset |-> payload_end,
                       unit   |-> AnnexBData(d, sc.off, sc.sc, sc.len, payload_end)]

\* AnnexBSplitter::next as a function of the splitter's fields: what it
\* returns and the offset it leaves.
next(d, off) ==
    IF off >= Len(d)
    THEN [some |-> FALSE, offset |-> off]
    ELSE LET sc == locate(d, off)
         IN  IF ~sc.found
             THEN [some |-> FALSE, offset |-> Len(d)]
             ELSE LET payload_start == sc.off + sc.len
                      payload_end   == payload_end_of(d, payload_start)
                  IN  [some   |-> TRUE,
                       offset |-> payload_end,
                       unit   |-> AnnexBData(d, sc.off, sc.sc, sc.len, payload_end)]

\* The buffers handed to reset(): the buffers of the source's tests.
ResetBuffers ==
    { <<>>,
      <<0, 0, 1, 66, 1, 66>>,
      <<0, 0, 0, 1, 66, 66>>,
      <<0, 0, 0, 1, 66, 1, 66, 0, 0, 1, 66, 66, 66>>,
      <<1, 66, 66>>,
      <<0, 0, 0, 1, 66>>,
      <<66, 66, 0, 0, 1, 66>> }

\* AnnexBSplitter::new
SplitterInit ==
    /\ data \in Buffers
    /\ offset = 0
    /\ result = "NotCalled"
    /\ returned = <<>>
    /\ op = "new"
    /\ origin = "new"

\* A reset that replaces the buffer and keeps the cursor.
reset_keeps_offset(b) ==
    /\ data' = b
    /\ offset' = offset
    /\ result' = "NotCalled"
    /\ returned' = <<>>
    /\ op' = "reset"
    /\ origin' = "reset"
    /\ UNCHANGED audioVars

\* AnnexBSplitter::reset
reset(b) ==
    /\ data' = b
    /\ offset' = 0
    /\ result' = "NotCalled"
    /\ returned' = <<>>
    /\ op' = "reset"
    /\ origin' = "reset"
    /\ UNCHANGED audioVars

CallReset == \E b \in ResetBuffers : reset(b)

\* A call of AnnexBSplitter::next
CallNext ==
    LET r == next(data, offset)
    IN  /\ offset' = r.offset
        /\ result' = IF r.some THEN "Some" ELSE "None"
        /\ returned' = IF r.some THEN Append(returned, r.unit) ELSE returned
        /\ op' = "next"
        /\ UNCHANGED <<data, origin>>
        /\ UNCHANGED audioVars

SplitterNext == CallNext \/ CallReset


\* -------------------------------------------------------------- audio.rs

\* The capacity of the inbound frame queue: mpsc::channel::<Bytes>(50).
Capacity == 50

\* The values of stream_config.samples_per_frame handed to setup().
SamplesPerFrame == {240, 480}

\* The calls of one run are bounded in one of three ways.
\* Runs with several setups, the muxer emitting one chunk per packet.
MultiSetupLimits ==
    [setups |-> MaxSetups, frames |-> MaxFrames, chunks |-> {1}, spf |-> {480},
     markers |-> FALSE]

\* Runs with one setup, the muxer emitting any number of chunks up to
\* MaxChunks per packet.
MultiChunkLimits ==
    [setups |-> 1, frames |-> MaxFrames, chunks |-> 0..MaxChunks, spf |-> SamplesPerFrame,
     markers |-> FALSE]

\* Runs with one setup and enough frames to fill the inbound queue, the
\* muxer emitting one chunk per packet.
LongLimits ==
    [setups |-> 1, frames |-> Capacity + MaxOver, chunks |-> {1}, spf |-> {480},
     markers |-> FALSE]

\* Runs with one setup in which the calls of start() and stop() are
\* recorded.
MarkerLimits ==
    [setups |-> 1, frames |-> MaxFrames, chunks |-> {1}, spf |-> {480},
     markers |-> TRUE]

NoMarker == [op |-> "none", at |-> 0]

NoChunk == [task |-> 0, kind |-> "none", frame |-> 0, idx |-> 0, of |-> 0]

Tasks == 1..Len(pc)

\* The chunks PacketWriter::write_packet pushes through VecSender::write
\* for one packet: n chunks, in order, each the idx-th of n.
Chunks(t, kind, frame, n) ==
    [i \in 1..n |-> [task |-> t, kind |-> kind, frame |-> frame, idx |-> i, of |-> n]]

\* A receive that takes the newest message of a channel.
pop_newest(q) == [value |-> q[Len(q)], rest |-> SubSeq(q, 1, Len(q) - 1)]

\* What a receive (recv, try_recv) takes from a non-empty channel: the
\* oldest message, the others staying in order.
pop(q) == [value |-> Head(q), rest |-> Tail(q)]

\* OpusTrackSampleAudioDecoder::new
AudioInit(l) ==
    /\ sender = 0
    /\ config = 0
    /\ callerPc = "idle"
    /\ pending = 0
    /\ queue = <<>>
    /\ pc = <<>>
    /\ granule_pos = <<>>
    /\ samples_per_frame = <<>>
    /\ chunk_rx = <<>>
    /\ chunk = <<>>
    /\ calls = 0
    /\ enqueued = <<>>
    /\ discarded = {}
    /\ written = <<>>
    /\ handed = <<>>
    /\ lastSend = "none"
    /\ limits = l
    /\ marker = NoMarker

\* A setup() that keeps the sender it already has.
setup_keeps_sender(n) ==
    /\ callerPc = "idle"
    /\ Len(pc) < limits.setups
    /\ n \in limits.spf
    /\ config' = n
    /\ sender' = IF sender = 0 THEN Len(pc) + 1 ELSE sender
    /\ queue' = Append(queue, <<>>)
    /\ pc' = Append(pc, "id_header")
    /\ granule_pos' = Append(granule_pos, 0)
    /\ samples_per_frame' = Append(samples_per_frame, n)
    /\ chunk_rx' = Append(chunk_rx, <<>>)
    /\ chunk' = Append(chunk, NoChunk)
    /\ enqueued' = Append(enqueued, <<>>)
    /\ written' = Append(written, <<>>)
    /\ handed' = Append(handed, NoChunk)
    /\ UNCHANGED <<callerPc, pending, calls, discarded, lastSend, limits, marker>>
    /\ UNCHANGED splitterVars

\* setup(): a new channel whose sender replaces self.sender (the previous
\* sender, if any, is dropped), and a new task that owns the receiver.
setup(n) ==
    /\ callerPc = "idle"
    /\ Len(pc) < limits.setups
    /\ n \in limits.spf
    /\ config' = n
    /\ sender' = Len(pc) + 1
    /\ queue' = Append(queue, <<>>)
    /\ pc' = Append(pc, "id_header")
    /\ granule_pos' = Append(granule_pos, 0)
    /\ samples_per_frame' = Append(samples_per_frame, n)
    /\ chunk_rx' = Append(chunk_rx, <<>>)
    /\ chunk' = Append(chunk, NoChunk)
    /\ enqueued' = Append(enqueued, <<>>)
    /\ written' = Append(written, <<>>)
    /\ handed' = Append(handed, NoChunk)
    /\ UNCHANGED <<callerPc, pending, calls, discarded, lastSend, limits, marker>>
    /\ UNCHANGED splitterVars

\* The record of a call of start() or stop().
called(op_name) ==
    marker' = IF limits.markers THEN [op |-> op_name, at |-> calls] ELSE marker

\* start(): an empty body.
start ==
    /\ callerPc = "idle"
    /\ called("start")
    /\ UNCHANGED <<sender, config, callerPc, pending, queue, pc, granule_pos,
                   samples_per_frame, chunk_rx, chunk, calls, enqueued, discarded,
                   written, handed, lastSend, limits>>
    /\ UNCHANGED splitterVars

\* A stop() that drops the sender.
stop_drops_sender ==
    /\ callerPc = "idle"
    /\ called("stop")
    /\ sender' = 0
    /\ UNCHANGED <<config, callerPc, pending, queue, pc, granule_pos,
                   samples_per_frame, chunk_rx, chunk, calls, enqueued, discarded,
                   written, handed, lastSend, limits>>
    /\ UNCHANGED splitterVars

\* stop(): an empty body.
stop ==
    /\ callerPc = "idle"
    /\ called("stop")
    /\ UNCHANGED <<sender, config, callerPc, pending, queue, pc, granule_pos,
                   samples_per_frame, chunk_rx, chunk, calls, enqueued, discarded,
                   written, handed, lastSend, limits>>
    /\ UNCHANGED splitterVars

\* decode_and_play_sample(), up to the call of blocking_send: without a
\* sender the frame is dropped and the call returns.
decode_and_play_sample ==
    /\ callerPc = "idle"
    /\ calls < limits.frames
    /\ calls' = calls + 1
    /\ IF sender = 0
       THEN /\ discarded' = discarded \cup
                   {[frame |-> calls + 1, sender |-> 0, closed |-> FALSE]}
            /\ UNCHANGED <<callerPc, pending>>
       ELSE /\ callerPc' = "sending"
            /\ pending' = calls + 1
            /\ UNCHANGED discarded
    /\ UNCHANGED <<sender, config, queue, pc, granule_pos, samples_per_frame,
                   chunk_rx, chunk, enqueued, written, handed,
                   lastSend, limits, marker>>
    /\ UNCHANGED splitterVars

\* The receiver of channel t is dropped when its task has ended.
receiver_closed(t) == pc[t] = "done"

\* A channel without bound.
has_capacity_unbounded(t) == TRUE

\* The channel has a free permit for one more frame.
has_capacity(t) == Len(queue[t]) < Capacity

\* A send that does not wait: the frame is dropped when the queue already
\* holds one.
blocking_send_try ==
    /\ callerPc = "sending"
    /\ IF receiver_closed(sender) \/ queue[sender] # <<>>
       THEN /\ discarded' = discarded \cup
                   {[frame |-> pending, sender |-> sender, closed |-> receiver_closed(sender)]}
            /\ UNCHANGED <<queue, enqueued>>
       ELSE /\ queue' = [queue EXCEPT ![sender] = Append(@, pending)]
            /\ enqueued' = [enqueued EXCEPT ![sender] = Append(@, pending)]
            /\ UNCHANGED discarded
    /\ callerPc' = "idle"
    /\ pending' = 0
    /\ UNCHANGED <<sender, config, pc, granule_pos, samples_per_frame, chunk_rx,
                   chunk, calls, written, handed, lastSend, limits, marker>>
    /\ UNCHANGED splitterVars

\* Sender::blocking_send completes: with an error when the receiver is
\* closed (the frame is dropped, the error ignored), else once the channel
\* has capacity, with the frame at the back of the queue.
blocking_send ==
    /\ callerPc = "sending"
    /\ receiver_closed(sender) \/ has_capacity(sender)
    /\ IF receiver_closed(sender)
       THEN /\ discarded' = discarded \cup
                   {[frame |-> pending, sender |-> sender, closed |-> TRUE]}
            /\ UNCHANGED <<queue, enqueued>>
       ELSE /\ queue' = [queue EXCEPT ![sender] = Append(@, pending)]
            /\ enqueued' = [enqueued EXCEPT ![sender] = Append(@, pending)]
            /\ UNCHANGED discarded
    /\ callerPc' = "idle"
    /\ pending' = 0
    /\ UNCHANGED <<sender, config, pc, granule_pos, samples_per_frame, chunk_rx,
                   chunk, calls, written, handed, lastSend, limits, marker>>
    /\ UNCHANGED splitterVars

\* writer.write_packet(packet, serial, EndPage, pos) of task t: the muxer
\* pushes n chunks into the task's unbounded channel.
write_packet(t, kind, frame, pos, n) ==
    /\ chunk_rx' = [chunk_rx EXCEPT ![t] = @ \o Chunks(t, kind, frame, n)]
    /\ written' = [written EXCEPT ![t] =
                       Append(@, [kind |-> kind, frame |-> frame, pos |-> pos])]

\* The task writes the ID header.
write_id_header(t) ==
    /\ t \in Tasks
    /\ pc[t] = "id_header"
    /\ \E n \in limits.chunks : write_packet(t, "id", 0, granule_pos[t], n)
    /\ pc' = [pc EXCEPT ![t] = "comment_header"]
    /\ UNCHANGED <<sender, config, callerPc, pending, queue, granule_pos,
                   samples_per_frame, chunk, calls, enqueued, discarded, handed, lastSend, limits, marker>>
    /\ UNCHANGED splitterVars

\* The task writes the comment header.
write_comment_header(t) ==
    /\ t \in Tasks
    /\ pc[t] = "comment_header"
    /\ \E n \in limits.chunks : write_packet(t, "comment", 0, granule_pos[t], n)
    /\ pc' = [pc EXCEPT ![t] = "send_headers"]
    /\ UNCHANGED <<sender, config, callerPc, pending, queue, granule_pos,
                   samples_per_frame, chunk, calls, enqueued, discarded, handed, lastSend, limits, marker>>
    /\ UNCHANGED splitterVars

\* One turn of "while let Ok(chunk) = chunk_rx.try_recv()": the next chunk
\* is handed to channel.send, or the loop ends on an empty channel.
try_recv(t, loop_pc, await_pc, after_pc) ==
    /\ t \in Tasks
    /\ pc[t] = loop_pc
    /\ IF chunk_rx[t] = <<>>
       THEN /\ pc' = [pc EXCEPT ![t] = after_pc]
            /\ UNCHANGED <<chunk_rx, chunk, handed>>
       ELSE /\ chunk' = [chunk EXCEPT ![t] = pop(chunk_rx[t]).value]
            /\ chunk_rx' = [chunk_rx EXCEPT ![t] = pop(chunk_rx[t]).rest]
            /\ handed' = [handed EXCEPT ![t] = chunk'[t]]
            /\ pc' = [pc EXCEPT ![t] = await_pc]
    /\ UNCHANGED <<sender, config, callerPc, pending, queue, granule_pos,
                   samples_per_frame, calls, enqueued, discarded, written,
                   lastSend, limits, marker>>
    /\ UNCHANGED splitterVars

\* A send whose Err puts the chunk back at the front of the chunk queue,
\* to be sent again.
send_done_retry(t, await_pc, loop_pc) ==
    /\ t \in Tasks
    /\ pc[t] = await_pc
    /\ lastSend' \in {"Ok", "Err"}
    /\ chunk_rx' = [chunk_rx EXCEPT ![t] = IF lastSend' = "Err" THEN <<chunk[t]>> \o @ ELSE @]
    /\ chunk' = [chunk EXCEPT ![t] = NoChunk]
    /\ pc' = [pc EXCEPT ![t] = loop_pc]
    /\ UNCHANGED <<sender, config, callerPc, pending, queue, granule_pos,
                   samples_per_frame, calls, enqueued, discarded,
                   written, handed, limits, marker>>
    /\ UNCHANGED splitterVars

\* channel.send(..).await completes with Ok or Err; an Err is logged and
\* the loop goes on.
send_done(t, await_pc, loop_pc) ==
    /\ t \in Tasks
    /\ pc[t] = await_pc
    /\ lastSend' \in {"Ok", "Err"}
    /\ chunk' = [chunk EXCEPT ![t] = NoChunk]
    /\ pc' = [pc EXCEPT ![t] = loop_pc]
    /\ UNCHANGED <<sender, config, callerPc, pending, queue, granule_pos,
                   samples_per_frame, chunk_rx, calls, enqueued, discarded,
                   written, handed, limits, marker>>
    /\ UNCHANGED splitterVars

\* A task that goes on to receive frames without sending the headers.
send_headers_skipped(t) ==
    /\ t \in Tasks
    /\ pc[t] = "send_headers"
    /\ pc' = [pc EXCEPT ![t] = "recv"]
    /\ UNCHANGED <<sender, config, callerPc, pending, queue, granule_pos,
                   samples_per_frame, chunk_rx, chunk, calls, enqueued, discarded,
                   written, handed, lastSend, limits, marker>>
    /\ UNCHANGED splitterVars

\* The loop that sends the headers.
send_headers(t) == try_recv(t, "send_headers", "await_header_send", "recv")

header_send_done(t) == send_done(t, "await_header_send", "send_headers")

\* A position that counts packets, not samples.
advance_by_one(pos, n) == pos + 1

\* The position an audio packet is written with: granule_pos +=
\* samples_per_frame.
advance(pos, n) == pos + n

\* A receive that ends the task as soon as the queue is empty.
recv_exits_on_empty(t) ==
    /\ t \in Tasks
    /\ pc[t] = "recv"
    /\ IF queue[t] # <<>>
       THEN /\ queue' = [queue EXCEPT ![t] = pop(queue[t]).rest]
            /\ granule_pos' = [granule_pos EXCEPT ![t] = advance(@, samples_per_frame[t])]
            /\ \E n \in limits.chunks :
                   write_packet(t, "audio", pop(queue[t]).value, granule_pos'[t], n)
            /\ pc' = [pc EXCEPT ![t] = "send_audio"]
       ELSE /\ pc' = [pc EXCEPT ![t] = "done"]
            /\ UNCHANGED <<queue, granule_pos, chunk_rx, written>>
    /\ UNCHANGED <<sender, config, callerPc, pending, samples_per_frame, chunk,
                   calls, enqueued, discarded, handed, lastSend, limits, marker>>
    /\ UNCHANGED splitterVars

\* A receive that hands out frames only once the sender has been dropped.
recv_after_close(t) ==
    /\ t \in Tasks
    /\ pc[t] = "recv"
    /\ sender # t
    /\ IF queue[t] # <<>>
       THEN /\ queue' = [queue EXCEPT ![t] = pop(queue[t]).rest]
            /\ granule_pos' = [granule_pos EXCEPT ![t] = advance(@, samples_per_frame[t])]
            /\ \E n \in limits.chunks :
                   write_packet(t, "audio", pop(queue[t]).value, granule_pos'[t], n)
            /\ pc' = [pc EXCEPT ![t] = "send_audio"]
       ELSE /\ pc' = [pc EXCEPT ![t] = "done"]
            /\ UNCHANGED <<queue, granule_pos, chunk_rx, written>>
    /\ UNCHANGED <<sender, config, callerPc, pending, samples_per_frame, chunk,
                   calls, enqueued, discarded, handed, lastSend, limits, marker>>
    /\ UNCHANGED splitterVars

\* A receive that polls: on an empty queue with a live sender it goes
\* round through the send loop instead of waiting.
recv_polls(t) ==
    /\ t \in Tasks
    /\ pc[t] = "recv"
    /\ IF queue[t] # <<>>
       THEN /\ queue' = [queue EXCEPT ![t] = pop(queue[t]).rest]
            /\ granule_pos' = [granule_pos EXCEPT ![t] = advance(@, samples_per_frame[t])]
            /\ \E n \in limits.chunks :
                   write_packet(t, "audio", pop(queue[t]).value, granule_pos'[t], n)
            /\ pc' = [pc EXCEPT ![t] = "send_audio"]
       ELSE /\ pc' = [pc EXCEPT ![t] = IF sender # t THEN "done" ELSE "send_audio"]
            /\ UNCHANGED <<queue, granule_pos, chunk_rx, written>>
    /\ UNCHANGED <<sender, config, callerPc, pending, samples_per_frame, chunk,
                   calls, enqueued, discarded, handed, lastSend, limits, marker>>
    /\ UNCHANGED splitterVars

\* receiver.recv().await completes: with a frame, which is written at the
\* advanced position, or with None once the sender is dropped and the
\* queue is empty, which ends the task.
recv(t) ==
    /\ t \in Tasks
    /\ pc[t] = "recv"
    /\ queue[t] # <<>> \/ sender # t
    /\ IF queue[t] # <<>>
       THEN /\ queue' = [queue EXCEPT ![t] = pop(queue[t]).rest]
            /\ granule_pos' = [granule_pos EXCEPT ![t] = advance(@, samples_per_frame[t])]
            /\ \E n \in limits.chunks :
                   write_packet(t, "audio", pop(queue[t]).value, granule_pos'[t], n)
            /\ pc' = [pc EXCEPT ![t] = "send_audio"]
       ELSE /\ pc' = [pc EXCEPT ![t] = "done"]
            /\ UNCHANGED <<queue, granule_pos, chunk_rx, written>>
    /\ UNCHANGED <<sender, config, callerPc, pending, samples_per_frame, chunk,
                   calls, enqueued, discarded, handed, lastSend, limits, marker>>
    /\ UNCHANGED splitterVars

\* The loop that sends a frame's chunks.
send_audio(t) == try_recv(t, "send_audio", "await_audio_send", "recv")

\* An "if let" in place of the "while let": after one chunk the task goes
\* back to receive.
audio_send_done_once(t) == send_done(t, "await_audio_send", "recv")

audio_send_done(t) == send_done(t, "await_audio_send", "send_audio")

\* A step of the background task of setup() call t.
task(t) ==
    \/ write_id_header(t)
    \/ write_comment_header(t)
    \/ send_headers(t)
    \/ header_send_done(t)
    \/ recv(t)
    \/ send_audio(t)
    \/ audio_send_done(t)

AudioNext ==
    \/ \E n \in SamplesPerFrame : setup(n)
    \/ start
    \/ stop
    \/ decode_and_play_sample
    \/ blocking_send
    \/ \E t \in 1..MaxSetups : task(t)

\* No splitter is in use in the runs of the audio pipeline.
SplitterIdle ==
    /\ data = <<>>
    /\ offset = 0
    /\ op = "new"
    /\ result = "NotCalled"
    /\ returned = <<>>
    /\ origin = "new"

AudioSmallInit == SplitterIdle /\ \E l \in {MultiSetupLimits, MultiChunkLimits} : AudioInit(l)

AudioLongInit == SplitterIdle /\ AudioInit(LongLimits)

AudioMarkerInit == SplitterIdle /\ AudioInit(MarkerLimits)

\* The decoder under several setups and few frames.
AudioSpec == AudioSmallInit /\ [][AudioNext]_vars

\* The decoder under one setup and frames beyond the queue's capacity.
QueueSpec == AudioLongInit /\ [][AudioNext]_vars

\* The decoder under one setup, with the calls of start() and stop()
\* recorded.
MarkerSpec == AudioMarkerInit /\ [][AudioNext]_vars

\* No decoder is in use in the runs of the splitter.
SplitterOnlyInit == AudioInit(MultiChunkLimits) /\ SplitterInit

SplitterSpec == SplitterOnlyInit /\ [][SplitterNext]_vars

\* ------------------------------------------- properties of the splitter

\* The pattern 00 00 01 occurs in p.
HasPattern(p) ==
    \E i \in 1..(Len(p) - 2) : p[i] = 0 /\ p[i + 1] = 0 /\ p[i + 2] = 1

\* The numbers n such that b is the concatenation of n units, each a start
\* code followed by a payload in which no start-code pattern occurs.
RECURSIVE UnitCounts(_)
UnitCounts(b) ==
    IF b = <<>> THEN {0}
    ELSE UNION { { m + 1 : m \in UnitCounts(SubSeq(b, k + 1, Len(b))) } :
                 k \in { j \in 3..Len(b) :
                           \E sc \in {<<0, 0, 1>>, <<0, 0, 0, 1>>} :
                               /\ j >= Len(sc)
                               /\ SubSeq(b, 1, Len(sc)) = sc
                               /\ ~HasPattern(SubSeq(b, Len(sc) + 1, j)) } }

\* A start code (00 00 01 or 00 00 00 01) begins at position q of d.
StartCodeAt(d, q) ==
    \/ /\ q + 3 <= Len(d)
       /\ d[q + 1] = 0 /\ d[q + 2] = 0 /\ d[q + 3] = 1
    \/ /\ q + 4 <= Len(d)
       /\ d[q + 1] = 0 /\ d[q + 2] = 0 /\ d[q + 3] = 0 /\ d[q + 4] = 1

\* The positions from p on at which a start code begins.
StartCodesFrom(d, p) == { q \in p..Len(d) : StartCodeAt(d, q) }

Least(S) == CHOOSE x \in S : \A y \in S : x <= y

\* The end of unit u's view in the owning buffer.
EndOf(u) == u.at + Len(u.full)

\* C1: a buffer that is the concatenation of N units, each a 3-byte or
\* 4-byte start code followed by a payload without start-code pattern,
\* yields exactly N units, in increasing buffer order: no more than N are
\* ever returned, None is returned only after the N-th, and after the N-th
\* the next call returns None.
C1_ExactlyNUnits ==
    \A n \in UnitCounts(data) :
        /\ Len(returned) <= n
        /\ result = "None" => Len(returned) = n
        /\ Len(returned) = n => ~next(data, offset).some
        /\ \A i \in 1..(Len(returned) - 1) : returned[i].at < returned[i + 1].at

\* A buffer of three units, 3-byte and 4-byte codes among them, split to its
\* end: the fourth call has returned None.
C1_Witness ==
    /\ 3 \in UnitCounts(data)
    /\ Len(returned) = 3
    /\ result = "None"
    /\ \E i, j \in 1..3 : returned[i].start_code = "B3" /\ returned[j].start_code = "B4"

\* C2: every returned unit has start_code_range 0..L, L = 3 for B3 and 4 for
\* B4; the view starts with the tagged pattern; payload_range is L..len of
\* the view; and the view ends at the first start code at or after its
\* payload's start, or at the end of the buffer when there is none.
C2_UnitShape ==
    \A i \in 1..Len(returned) :
        LET u == returned[i]
            L == IF u.start_code = "B3" THEN 3 ELSE 4
            pattern == IF u.start_code = "B3" THEN <<0, 0, 1>> ELSE <<0, 0, 0, 1>>
            following == StartCodesFrom(data, u.at + L)
        IN  /\ u.start_code \in {"B3", "B4"}
            /\ u.start_code_range = <<0, L>>
            /\ Len(u.full) >= L
            /\ SubSeq(u.full, 1, L) = pattern
            /\ u.payload_range = <<L, Len(u.full)>>
            /\ u.full = SubSeq(data, u.at + 1, EndOf(u))
            /\ EndOf(u) = IF following = {} THEN Len(data) ELSE Least(following)

\* A 4-byte unit that ends at the next start code, followed by a last
\* 3-byte unit with a payload that ends with the buffer.
C2_Witness ==
    /\ Len(returned) = 2
    /\ returned[1].start_code = "B4"
    /\ EndOf(returned[1]) < Len(data)
    /\ returned[2].start_code = "B3"
    /\ EndOf(returned[2]) = Len(data)
    /\ Len(returned[2].full) > 3

\* C3: the first returned view begins at the first start code of the
\* buffer and no view begins before it; a buffer without any start code
\* makes the first call return None and leaves the cursor at the end of
\* the buffer.
C3_LeadingBytesDropped ==
    LET codes == StartCodesFrom(data, 0)
    IN  /\ \A i \in 1..Len(returned) : codes # {} /\ returned[i].at >= Least(codes)
        /\ returned # <<>> => returned[1].at = Least(codes)
        /\ (codes = {} /\ result # "NotCalled") =>
               /\ result = "None"
               /\ returned = <<>>
               /\ offset = Len(data)

\* Bytes lie before the first start code and the unit after them has been
\* returned.
C3_Witness ==
    /\ returned # <<>>
    /\ returned[1].at >= 2
    /\ data[1] = 66

\* The units a freshly constructed splitter over d returns, call by call.
RECURSIVE UnitsFrom(_, _)
UnitsFrom(d, off) ==
    LET r == next(d, off)
    IN  IF r.some THEN <<r.unit>> \o UnitsFrom(d, r.offset) ELSE <<>>

IsPrefix(s, t) == Len(s) <= Len(t) /\ s = SubSeq(t, 1, Len(s))

\* C4: a next() after one that returned None returns None and leaves the
\* cursor where it is; reset() puts the cursor at 0, and the units returned
\* since are those a freshly constructed splitter over the buffer returns.
C4_ExhaustedUntilReset ==
    [][ /\ (result = "None" /\ op' = "next") =>
             (result' = "None" /\ offset' = offset /\ data' = data)
        /\ op' = "reset" => offset' = 0
        /\ IsPrefix(returned', UnitsFrom(data', 0))
        /\ result' = "None" => returned' = UnitsFrom(data', 0)
      ]_vars

\* A splitter that was exhausted, then reset, and has since returned both
\* units of its new buffer and None.
C4_Witness ==
    /\ origin = "reset"
    /\ Len(returned) = 2
    /\ result = "None"

\* C12: the cursor is always within the buffer; a next() step never moves
\* it back; a next() step that returns a unit moves it forward by at least
\* the length of that unit's start code; and a step that moves it back is
\* a reset(), which puts it at 0.
C12_OffsetMonotone ==
    /\ [](0 <= offset /\ offset <= Len(data))
    /\ [][ /\ op' = "next" => (data' = data /\ offset' >= offset)
           /\ (op' = "next" /\ result' = "Some" /\ returned' # returned) =>
                  offset' >= offset + len(returned'[Len(returned')].start_code)
           /\ offset' < offset => (op' = "reset" /\ offset' = 0)
         ]_vars

\* After a reset(), the first unit of the new buffer has been returned
\* and the cursor stands inside the buffer, past the unit's start code.
C12_Witness ==
    /\ origin = "reset"
    /\ op = "next"
    /\ result = "Some"
    /\ Len(returned) = 1
    /\ len(returned[1].start_code) < offset /\ offset < Len(data)

\* C13: a unit tagged B3 starts at position 0 or right after a non-zero
\* byte, and a unit's tag is the longest start code at its position: the
\* bytes 00 00 01 right after a zero byte never delimit a B3 unit, the unit
\* is tagged B4 and starts at that zero byte.
C13_ZeroBeforeMeansB4 ==
    /\ \A i \in 1..Len(returned) :
           LET u == returned[i]
           IN  /\ u.start_code = "B3" =>
                      /\ SubSeq(data, u.at + 1, u.at + 3) = <<0, 0, 1>>
                      /\ u.at = 0 \/ data[u.at] # 0
               /\ u.start_code = "B4" =>
                      SubSeq(data, u.at + 1, u.at + 4) = <<0, 0, 0, 1>>
    /\ \A q \in 1..(Len(data) - 3) :
           (/\ returned # <<>>
            /\ q - 1 < offset
            /\ data[q] = 0
            /\ SubSeq(data, q + 1, q + 3) = <<0, 0, 1>>) =>
               \E i \in 1..Len(returned) :
                   returned[i].at = q - 1 /\ returned[i].start_code = "B4"

\* A forward scan has found 00 00 01 after a zero byte and returned the B4
\* unit that starts at the zero byte, and a later B3 unit follows a
\* non-zero byte.
C13_Witness ==
    /\ Len(returned) >= 2
    /\ returned[1].start_code = "B4"
    /\ returned[1].at > 0
    /\ \E i \in 2..Len(returned) :
           returned[i].start_code = "B3" /\ data[returned[i].at] # 0

\* C19: each view begins where the view before it ends; after the first
\* unit the cursor is at the end of the buffer or on a start code; and
\* once None is returned the views, concatenated, are the buffer from its
\* first start code to its last byte.
RECURSIVE Concat(_)
Concat(units) ==
    IF units = <<>> THEN <<>> ELSE Head(units).full \o Concat(Tail(units))

C19_Contiguous ==
    /\ \A i \in 1..(Len(returned) - 1) : returned[i + 1].at = EndOf(returned[i])
    /\ returned # <<>> =>
           /\ offset = EndOf(returned[Len(returned)])
           /\ offset = Len(data) \/ StartCodeAt(data, offset)
           /\ Concat(returned) = SubSeq(data, returned[1].at + 1, offset)
    /\ (result = "None" /\ returned # <<>>) => offset = Len(data)

\* Two units with payloads after leading bytes, a 3-byte and a 4-byte
\* code, both returned, and None after them.
C19_Witness ==
    /\ Len(returned) = 2
    /\ returned[1].at > 0
    /\ result = "None"
    /\ returned[1].start_code # returned[2].start_code
    /\ \A i \in 1..2 : Len(returned[i].full) > len(returned[i].start_code)

\* The payload of unit u.
Payload(u) == SubSeq(u.full, u.payload_range[1] + 1, u.payload_range[2])

\* C20: no payload contains 00 00 01; a unit's view ends at the first
\* start code after its own, so its payload is empty exactly when a start
\* code or the end of the buffer follows its start code at once.
C20_PayloadHasNoStartCode ==
    \A i \in 1..Len(returned) :
        LET u == returned[i]
            payload_start == u.at + len(u.start_code)
        IN  /\ ~HasPattern(Payload(u))
            /\ ~starts_with(Payload(u), <<0, 0, 0, 1>>)
            /\ Payload(u) = SubSeq(data, payload_start + 1, EndOf(u))
            /\ \A q \in payload_start..(EndOf(u) - 1) : ~StartCodeAt(data, q)
            /\ Payload(u) = <<>> <=>
                   (payload_start = Len(data) \/ StartCodeAt(data, payload_start))

\* Two adjacent start codes and a start code at the end of the buffer:
\* the first and the last unit have empty payloads.
C20_Witness ==
    /\ Len(returned) = 3
    /\ Payload(returned[1]) = <<>>
    /\ Payload(returned[2]) # <<>>
    /\ Payload(returned[3]) = <<>>
    /\ EndOf(returned[3]) = Len(data)

\* ------------------------------------ properties of the audio pipeline

\* The scheduling the runtime gives: a blocking_send that can complete does,
\* and every spawned task that can take a step does.
AudioFairSpec ==
    /\ AudioSpec
    /\ WF_vars(blocking_send)
    /\ \A t \in 1..MaxSetups : WF_vars(task(t))

IsHeader(c) == c.kind \in {"id", "comment"}

\* The place of a packet in the order a task writes its packets: the ID
\* header, the comment header, then the frames as submitted (a frame is
\* named by the number of its submission).
Rank(c) == IF c.kind = "id" THEN 0 ELSE IF c.kind = "comment" THEN 1 ELSE 1 + c.frame

\* Chunk b may come right after chunk a in what one task hands to the
\* transport: the next chunk of a's packet, or, a being the last chunk of
\* its packet, the first chunk of a later packet.
Follows(a, b) ==
    IF a = NoChunk THEN b.idx = 1
    ELSE \/ Rank(b) = Rank(a) /\ b.idx = a.idx + 1
         \/ Rank(b) > Rank(a) /\ a.idx = a.of /\ b.idx = 1

\* The chunks of task t from the last one handed to the transport on: the
\* one handed last, then those still buffered.
Pipeline(t) == <<handed[t]>> \o chunk_rx[t]

\* The frames of the audio packets task t has written, in order.
FramesWritten(t) ==
    LET audio == SelectSeq(written[t], LAMBDA w : w.kind = "audio")
    IN  [i \in 1..Len(audio) |-> audio[i].frame]

\* Task t hands a chunk to the transport in this step.
HandsOver(t) == handed'[t] # handed[t]

\* C5 as claimed: across all setups, the chunks handed to the transport are
\* header chunks first and then the frames' chunks in submission order, so a
\* chunk handed over is never a header chunk once an audio chunk was handed
\* over, nor a chunk of an earlier frame than one already handed over.
C5_GlobalOrder ==
    [][ \A t \in Tasks : HandsOver(t) =>
            \A u \in Tasks :
                handed[u].kind = "audio" =>
                    /\ handed'[t].kind = "audio"
                    /\ handed'[t].frame >= handed[u].frame
      ]_vars

\* C5 as amended: for each setup, what its task hands to the transport is
\* its header chunks and then, frame by frame in the order the frames were
\* submitted to that setup's queue, all chunks of each frame in emission
\* order; every chunk of a frame is handed over before the next frame is
\* received.
C5_PerSetupOrder ==
    /\ [](\A t \in Tasks :
            /\ IsPrefix(FramesWritten(t), enqueued[t])
            /\ \A i \in 1..(Len(enqueued[t]) - 1) : enqueued[t][i] < enqueued[t][i + 1]
            /\ \A i \in 1..(Len(Pipeline(t)) - 1) : Follows(Pipeline(t)[i], Pipeline(t)[i + 1])
            /\ pc[t] \in {"recv", "done"} => chunk_rx[t] = <<>>)
    /\ [][ \A t \in Tasks : HandsOver(t) =>
              /\ Follows(handed[t], handed'[t])
              /\ handed'[t] = Head(chunk_rx[t])
              /\ handed'[t].kind = "audio" =>
                     handed'[t].frame = FramesWritten(t)[Len(FramesWritten(t))]
         ]_vars

\* The second chunk of the second frame of a setup has been handed to the
\* transport.
C5_Witness ==
    \E t \in Tasks :
        /\ Len(FramesWritten(t)) = 2
        /\ handed[t].kind = "audio"
        /\ handed[t].frame = enqueued[t][2]
        /\ handed[t].idx = 2

\* The pcs of a task before its first receive.
HeaderPcs == {"id_header", "comment_header", "send_headers", "await_header_send"}

\* C6: a task writes the ID header, then the comment header, then frames
\* only; while it is at the headers it has received no frame; once it has
\* received a frame or handed over an audio chunk, no header chunk is
\* buffered or in flight; and the header chunks go to the transport in
\* emission order.
C6_HeadersFirst ==
    \A t \in Tasks :
        /\ \A i \in 1..Len(written[t]) :
               written[t][i].kind = IF i = 1 THEN "id" ELSE IF i = 2 THEN "comment" ELSE "audio"
        /\ pc[t] \in HeaderPcs =>
               /\ queue[t] = enqueued[t]
               /\ ~(handed[t].kind = "audio")
               /\ pc[t] \in {"send_headers", "await_header_send"} => Len(written[t]) = 2
        /\ (queue[t] # enqueued[t] \/ handed[t].kind = "audio") =>
               /\ Len(written[t]) >= 2
               /\ \A i \in 1..Len(chunk_rx[t]) : ~IsHeader(chunk_rx[t][i])
               /\ ~IsHeader(chunk[t])
        /\ \A i \in 1..(Len(Pipeline(t)) - 1) :
               IsHeader(Pipeline(t)[i + 1]) =>
                   /\ Pipeline(t)[i] = NoChunk \/ IsHeader(Pipeline(t)[i])
                   /\ Follows(Pipeline(t)[i], Pipeline(t)[i + 1])

\* A task whose last header chunk handed over is the second chunk of the
\* comment header has received its first frame.
C6_Witness ==
    \E t \in Tasks :
        /\ handed[t].kind = "comment"
        /\ handed[t].idx = 2
        /\ Len(written[t]) = 3
        /\ pc[t] = "send_audio"

\* C7: with N samples per frame, a task that has written K audio packets
\* has position K * N; the headers are written at position 0 and the k-th
\* audio packet at k * N; no step decreases the position.
C7_Position ==
    /\ [](\A t \in Tasks :
            LET N == samples_per_frame[t]
            IN  /\ granule_pos[t] = Len(FramesWritten(t)) * N
                /\ \A i \in 1..Len(written[t]) :
                       written[t][i].pos = IF written[t][i].kind = "audio" THEN (i - 2) * N ELSE 0)
    /\ [][ \A t \in Tasks : granule_pos'[t] >= granule_pos[t] ]_vars

\* A task set up with 240 samples per frame has written three frames.
C7_Witness ==
    \E t \in Tasks :
        /\ samples_per_frame[t] = 240
        /\ Len(FramesWritten(t)) = 3
        /\ granule_pos[t] = 720

\* C8: no inbound queue ever holds more than 50 frames; while the caller
\* is inside blocking_send and the queue holds 50, no step returns the call
\* or enqueues its frame; and when the queue holds fewer, the call can
\* complete.
C8_Backpressure ==
    /\ [](\A t \in Tasks : Len(queue[t]) <= 50)
    /\ [](callerPc = "sending" /\ Len(queue[sender]) < 50 => ENABLED blocking_send)
    /\ [][ (callerPc = "sending" /\ Len(queue[sender]) = 50) =>
              /\ callerPc' = "sending"
              /\ pending' = pending
              /\ enqueued' = enqueued
              /\ discarded' = discarded
         ]_vars

\* A call that found the queue full has returned after the task removed a
\* frame: its frame, the 51st enqueued, is in the queue.
C8_Witness ==
    /\ callerPc = "idle"
    /\ sender # 0
    /\ Len(enqueued[sender]) = 51
    /\ Len(queue[sender]) = 50

\* C9 as claimed: a frame is discarded only when the receiver of the
\* inbound queue is closed.
C9_DiscardOnlyWhenClosed == \A d \in discarded : d.closed

\* Frame f has been enqueued in the queue of setup t.
Enqueued(t, f) == t \in Tasks /\ \E i \in 1..Len(enqueued[t]) : enqueued[t][i] = f

\* Task t has written frame f through the muxer.
Written(t, f) == t \in Tasks /\ \E i \in 1..Len(FramesWritten(t)) : FramesWritten(t)[i] = f

\* C9 as amended: a frame is discarded only when there is no sender (setup
\* has not been called) or the receiver is closed; every other frame whose
\* call has returned is in exactly one queue's history, exactly once; a
\* task writes only frames of its queue, each at most once; and, under fair
\* scheduling, every enqueued frame is eventually written by the task: at
\* any time there is a later time at which every frame enqueued so far has
\* been written.
C9_NoSilentDrop ==
    /\ [](/\ \A d \in discarded : d.sender = 0 \/ d.closed
          /\ \A f \in 1..calls :
                LET places == { <<t, i>> \in Tasks \X (1..calls) :
                                  i <= Len(enqueued[t]) /\ enqueued[t][i] = f }
                IN  IF callerPc = "sending" /\ pending = f
                    THEN places = {} /\ ~(\E d \in discarded : d.frame = f)
                    ELSE IF \E d \in discarded : d.frame = f
                    THEN places = {}
                    ELSE Cardinality(places) = 1
          /\ \A t \in Tasks :
                /\ IsPrefix(FramesWritten(t), enqueued[t])
                /\ enqueued[t] = FramesWritten(t) \o queue[t])
    /\ []<>(\A t \in Tasks : \A f \in 1..calls : Enqueued(t, f) => Written(t, f))

\* A frame was discarded before setup, and the frames submitted to two
\* setups have all been written.
C9_Witness ==
    /\ discarded # {}
    /\ Len(pc) = 2
    /\ \A t \in Tasks : enqueued[t] # <<>> /\ FramesWritten(t) = enqueued[t]

\* C10: the step in which a transport send ends with Err leaves the task
\* in its send loop with the chunk gone: the chunk is not put back into
\* the chunk queue nor handed over again, the position and the queues are
\* unchanged; and what a task hands over next always follows what it handed
\* over before, so no chunk is handed over twice and the later chunks and
\* frames go out in order.
C10_RejectedChunkDropped ==
    [][ \A t \in Tasks :
          /\ (pc[t] \in {"await_header_send", "await_audio_send"} /\ pc'[t] # pc[t]
                 /\ lastSend' = "Err") =>
                 /\ pc'[t] = IF pc[t] = "await_header_send" THEN "send_headers" ELSE "send_audio"
                 /\ chunk'[t] = NoChunk
                 /\ chunk_rx' = chunk_rx
                 /\ handed' = handed
                 /\ granule_pos' = granule_pos
                 /\ queue' = queue
                 /\ written' = written
          /\ HandsOver(t) =>
                 /\ Follows(handed[t], handed'[t])
                 /\ chunk[t] = NoChunk
                 /\ chunk'[t] = handed'[t]
          /\ IsPrefix(FramesWritten(t)', enqueued'[t])
      ]_vars

\* The last send was rejected, and the task has since handed the next
\* chunk of the same frame to the transport.
C10_Witness ==
    \E t \in Tasks :
        /\ lastSend = "Err"
        /\ pc[t] = "await_audio_send"
        /\ handed[t].idx = 2

\* C11: a task that has ended has lost its sender and has left nothing
\* behind: its queue and chunk queue are empty and every frame enqueued
\* for it has been written; while the sender of its queue exists a task
\* has not ended; an ended task stays ended; and, under fair scheduling,
\* there is always a later time at which every task whose sender has been
\* dropped has ended.
C11_EndsWhenSenderDropped ==
    /\ [](\A t \in Tasks :
            pc[t] = "done" =>
                /\ sender # t
                /\ queue[t] = <<>>
                /\ chunk_rx[t] = <<>>
                /\ chunk[t] = NoChunk
                /\ FramesWritten(t) = enqueued[t])
    /\ [][ \A t \in Tasks : pc[t] = "done" => pc'[t] = "done" ]_vars
    /\ []<>(\A t \in Tasks : sender # t => pc[t] = "done")

\* The sender of the first setup was dropped by a second setup, and the
\* first task has written the frames of its queue and ended.
C11_Witness ==
    /\ Len(pc) = 2
    /\ pc[1] = "done"
    /\ Len(FramesWritten(1)) >= 2
    /\ pc[2] # "done"

\* The tasks that have not ended.
Alive == { t \in Tasks : pc[t] # "done" }

\* C14 as claimed: at most one background task is alive at any time.
C14_OneTaskAlive == Cardinality(Alive) <= 1

\* C14 as amended: every setup() spawns one task; the sender the decoder
\* holds is the one of the latest setup, so at most one alive task can be
\* handed new frames; a task of an earlier setup stays alive while it
\* works off its queue, which only shrinks; and after a single setup at
\* most one task is alive.
C14_OneTaskPerSetup ==
    /\ [](/\ sender = Len(pc)
          /\ Cardinality(Alive) <= Len(pc)
          /\ Len(pc) <= 1 => Cardinality(Alive) <= 1
          /\ \A t \in Tasks : (t # sender /\ pc[t] = "recv" /\ queue[t] = <<>>) =>
                 ENABLED recv(t))
    /\ [][ /\ Len(pc') \in {Len(pc), Len(pc) + 1}
           /\ \A t \in Tasks :
                  t # sender => (enqueued'[t] = enqueued[t] /\ Len(queue'[t]) <= Len(queue[t]))
         ]_vars

\* Two tasks are alive and each has a chunk on its way to the transport.
C14_Witness ==
    /\ Len(pc) = 2
    /\ chunk[1] # NoChunk
    /\ chunk[2] # NoChunk
    /\ chunk[1].kind = "audio"

\* The write_packet calls whose chunks are in the chunk queue of task t.
WritesQueued(t) ==
    { <<chunk_rx[t][i].kind, chunk_rx[t][i].frame>> : i \in 1..Len(chunk_rx[t]) }

\* C15 as claimed: a chunk queue holds the chunks of at most one
\* write_packet call, and is empty whenever its task is at recv.
C15_OneWriteQueued ==
    \A t \in Tasks :
        /\ Cardinality(WritesQueued(t)) <= 1
        /\ pc[t] = "recv" => chunk_rx[t] = <<>>

\* C15 as amended: a chunk queue holds the chunks of at most two
\* write_packet calls, and of two only when they are the two header
\* packets; once a task has been at recv its chunk queue holds the chunks
\* of at most one write_packet call, those of the frame it received last;
\* and the chunk queue is empty whenever the task is at recv or has ended.
C15_HeadersThenOneWrite ==
    \A t \in Tasks :
        /\ Cardinality(WritesQueued(t)) <= 2
        /\ Cardinality(WritesQueued(t)) = 2 =>
               /\ WritesQueued(t) = {<<"id", 0>>, <<"comment", 0>>}
               /\ pc[t] \in {"send_headers", "await_header_send"}
        /\ pc[t] \in {"send_audio", "await_audio_send"} =>
               /\ Cardinality(WritesQueued(t)) <= 1
               /\ \A w \in WritesQueued(t) :
                      w = <<"audio", FramesWritten(t)[Len(FramesWritten(t))]>>
        /\ pc[t] \in {"recv", "done"} => chunk_rx[t] = <<>>

\* Both header packets are in the chunk queue, two chunks each, before
\* the first of them is sent.
C15_Witness ==
    \E t \in Tasks :
        /\ pc[t] = "send_headers"
        /\ Len(chunk_rx[t]) = 4
        /\ Cardinality(WritesQueued(t)) = 2

\* C16: a call of start() or stop() changes nothing of the decoder, its
\* queues and its tasks; and frames are handled after it as before it: a
\* frame whose call has returned is discarded only without a sender or
\* with a closed receiver, and else is in the queue's history once; the
\* task writes the frames in the order they were enqueued, the k-th at
\* position k times the samples per frame.
C16_MarkersChangeNothing ==
    /\ [][ marker' # marker =>
             UNCHANGED <<sender, config, callerPc, pending, queue, pc, granule_pos,
                         samples_per_frame, chunk_rx, chunk, calls, enqueued,
                         discarded, written, handed, lastSend>>
         ]_vars
    /\ [](\A f \in (marker.at + 1)..calls :
            \/ callerPc = "sending" /\ pending = f
            \/ \E d \in discarded : d.frame = f /\ (d.sender = 0 \/ d.closed)
            \/ \E t \in Tasks : Enqueued(t, f))
    /\ [](\A t \in Tasks :
            /\ enqueued[t] = FramesWritten(t) \o queue[t]
            /\ granule_pos[t] = Len(FramesWritten(t)) * samples_per_frame[t])

\* stop() was called in the middle of the stream, after a frame had been
\* written, and a frame submitted after it has been written too.
C16_Witness ==
    /\ marker.op = "stop"
    /\ marker.at >= 1
    /\ \E t \in Tasks :
           /\ Written(t, marker.at)
           /\ Written(t, marker.at + 1)
           /\ granule_pos[t] = (marker.at + 1) * samples_per_frame[t]

\* The scheduling of the runs that fill the queue.
QueueFairSpec ==
    /\ QueueSpec
    /\ WF_vars(blocking_send)
    /\ \A t \in 1..MaxSetups : WF_vars(task(t))

\* C17: while a call is blocked on the full queue, the task of that queue
\* is not waiting: it has a step to take, whatever the results of its
\* sends; and, under fair scheduling, every call that is inside
\* blocking_send, blocked on a full queue or not, returns.
C17_CallReturns ==
    /\ []((callerPc = "sending" /\ ~has_capacity(sender)) => ENABLED task(sender))
    /\ (callerPc = "sending") ~> (callerPc = "idle")

\* Every frame of the run has been submitted, two of them by calls that
\* found the queue full, the last transport send was rejected, and the
\* last call has returned.
C17_Witness ==
    /\ Len(pc) = 1
    /\ calls = Capacity + MaxOver
    /\ callerPc = "idle"
    /\ Len(enqueued[1]) = Capacity + MaxOver
    /\ Len(FramesWritten(1)) = MaxOver
    /\ lastSend = "Err"

\* The places at which a task is inside channel.send(..).await.
SendAwaitPcs == {"await_header_send", "await_audio_send"}

\* C18 as claimed: the task is suspended, with other activity going on,
\* only while it waits for the next frame: while it is forwarding a chunk
\* to the transport no step but its own is taken.
C18_TwoSuspensionPoints ==
    [][ \A t \in Tasks : pc[t] \in SendAwaitPcs => pc'[t] # pc[t] ]_vars

\* C18 as amended: the pipeline waits in exactly three places.  The caller
\* waits only inside blocking_send, and there exactly while the queue is
\* full and its receiver open.  A task that has not ended waits for others
\* only at recv, and there exactly while its queue is empty and its sender
\* exists.  And a task is suspended inside channel.send(..).await, with
\* one chunk on its way to the transport, until the send completes with
\* Ok or Err, after which it is back in its send loop; at every other
\* place no chunk is on its way.
C18_ThreeSuspensionPoints ==
    /\ [](/\ callerPc = "sending" =>
                 (~(ENABLED blocking_send) <=>
                      (Len(queue[sender]) = Capacity /\ pc[sender] # "done"))
          /\ (callerPc = "idle" /\ calls < limits.frames) =>
                 ENABLED decode_and_play_sample
          /\ \A t \in Tasks :
                 /\ ~(ENABLED task(t)) <=>
                        \/ pc[t] = "done"
                        \/ pc[t] = "recv" /\ queue[t] = <<>> /\ sender = t
                 /\ chunk[t] # NoChunk <=> pc[t] \in SendAwaitPcs)
    /\ [][ \A t \in Tasks :
             (pc[t] \in SendAwaitPcs /\ pc'[t] # pc[t]) =>
                 /\ pc'[t] = IF pc[t] = "await_header_send"
                             THEN "send_headers" ELSE "send_audio"
                 /\ chunk'[t] = NoChunk
                 /\ lastSend' \in {"Ok", "Err"}
         ]_vars

\* The caller is blocked on the full queue while the task is inside
\* channel.send(..).await with a chunk of a frame on its way.
C18_Witness ==
    /\ Len(pc) = 1
    /\ callerPc = "sending"
    /\ Len(queue[1]) = Capacity
    /\ pc[1] = "await_audio_send"
    /\ chunk[1].kind = "audio"

====
